---- MODULE Spec2Model ----
(***************************************************************************)
(* The SD-card SPI driver of cmd56_01_spi_sandisk.py as a state machine.   *)
(* One run of main() talks to a bus whose returned bytes (MISO) are chosen *)
(* by the environment at every transfer.                                   *)
(***************************************************************************)
EXTENDS Integers, Sequences, FiniteSets, TLC

(***************************************************************************)
(* Program constants.                                                      *)
(***************************************************************************)
IdleCount  == 10      \* open_spi: range(10)
PollLimit  == 10      \* send_cmd: range(10)
TokenLimit == 1000    \* read_data_block: range(1000)
AcmdLimit  == 100     \* init_card: range(100)
BlockLen   == 512     \* payload bytes of a data block
CrcLen     == 2       \* trailing CRC bytes of a data block
EchoLen    == 4       \* trailing bytes of CMD8's R7 response
StartToken == 254     \* 0xFE
IdleByte   == 255     \* 0xFF
StartBits  == 64      \* 0x40
HighBit    == 128     \* 0x80
NoResponse == -1      \* send_cmd's "no valid response" return value

(***************************************************************************)
(* Bit operations on naturals, computed bit by bit.                        *)
(***************************************************************************)
RECURSIVE BitAnd(_, _)
BitAnd(a, b) ==
    IF a = 0 \/ b = 0 THEN 0
    ELSE (IF a % 2 = 1 /\ b % 2 = 1 THEN 1 ELSE 0) + 2 * BitAnd(a \div 2, b \div 2)

RECURSIVE BitOr(_, _)
BitOr(a, b) ==
    IF a = 0 THEN b
    ELSE IF b = 0 THEN a
    ELSE (IF a % 2 = 1 \/ b % 2 = 1 THEN 1 ELSE 0) + 2 * BitOr(a \div 2, b \div 2)

(***************************************************************************)
(* A 32-bit argument is held as its two 16-bit halves [hi, lo] (the model  *)
(* checker's integers are 32-bit signed).  W32(hi, lo) is hi * 2^16 + lo.  *)
(***************************************************************************)
W32(h, l) == [hi |-> h, lo |-> l]

\* a >> n, for 0 <= n < 32
Shr(a, n) ==
    IF n >= 16
    THEN W32(0, a.hi \div (2 ^ (n - 16)))
    ELSE W32(a.hi \div (2 ^ n), (a.hi % (2 ^ n)) * (2 ^ (16 - n)) + a.lo \div (2 ^ n))

\* a & m, for a 32-bit a and a mask m below 2^16
AndMask(a, m) == BitAnd(a.lo, m)

(***************************************************************************)
(* The bytes the environment may put on MISO, and the inputs of send_cmd   *)
(* when it is exercised on its own.                                        *)
(***************************************************************************)
BusBytes   == {0, 1, 5, 127, 128, 254, 255}
CmdIndices == 0 .. 63
ArgSamples == { W32(0, 0), W32(0, 1), W32(0, 426), W32(16384, 0),
                W32(4660, 22136), W32(65535, 65535) }
CrcSamples == {0, 1, 149, 255}

VARIABLES
    pc,        \* position of the run
    retpc,     \* where the running send_cmd returns to
    cmd, arg, crc,   \* parameters of the running (or last) send_cmd
    polls,     \* poll bytes transmitted by the running (or last) send_cmd
    tx,        \* MOSI bytes transmitted since the running send_cmd was entered
    miso,      \* bytes returned by the last bus transfer
    ret,       \* <<v>>: value send_cmd returned, until its caller takes it
    sent,      \* command packets transmitted per command index, by the running
               \* stage of the run (bring-up, then the health-register read)
    idle,      \* the transfers open_spi has made, each the bytes it sent
    result,    \* main's failure template: <<>> before it is built, then <<r>>
    attempt,   \* init_card: iterations of the ACMD41 loop entered
    resp,      \* last value send_cmd returned for CMD0, CMD8, ACMD41, CMD56
    initOk,    \* <<b>>: value init_card returned, <<>> before
    tokenPolls,  \* read_data_block: poll bytes transmitted
    reads,     \* lengths of the readbytes calls made so far
    data,      \* read_data_block's result: <<>> is None, <<block>> a block
    dataRet,   \* whether read_data_block has returned
    diag,      \* diagnostic lines printed
    dump,      \* hex dump lines printed
    reports    \* reports printed

sendVars == <<retpc, cmd, arg, crc, polls, tx, ret, sent>>
mainVars == <<idle, result, attempt, resp, initOk, tokenPolls, reads, data,
              dataRet, diag, dump, reports>>
vars == <<pc, miso, sendVars, mainVars>>

(***************************************************************************)
(* send_cmd(cmd, arg, crc)                                                 *)
(***************************************************************************)
\* the argument bytes least-significant first
PacketLittleEndian(c, a, k) ==
    << BitOr(StartBits, c),
       AndMask(a, 255),
       AndMask(Shr(a, 8), 255),
       AndMask(Shr(a, 16), 255),
       AndMask(Shr(a, 24), 255),
       k >>

\* lines 43-50
Packet(c, a, k) ==
    << BitOr(StartBits, c),
       AndMask(Shr(a, 24), 255),
       AndMask(Shr(a, 16), 255),
       AndMask(Shr(a, 8), 255),
       AndMask(a, 255),
       k >>

\* the test on bit 6 instead of bit 7
IsResponseBit6(r) == BitAnd(r, StartBits) = 0

\* line 54: r & 0x80 == 0
IsResponse(r) == BitAnd(r, HighBit) = 0

\* one iteration too few
PollsLeftShort(n) == n < PollLimit - 1

\* line 52: range(10) has an iteration left after n of them
PollsLeft(n) == n < PollLimit

\* line 42: the priming byte
SendCmdPrime ==
    /\ pc = "send_prime"
    /\ \E b \in BusBytes : miso' = <<b>>
    /\ tx' = <<IdleByte>>
    /\ polls' = 0
    /\ pc' = "send_packet"
    /\ UNCHANGED <<retpc, cmd, arg, crc, ret, sent, mainVars>>

\* lines 43-51: the packet, one transfer of six bytes
SendCmdPacket ==
    /\ pc = "send_packet"
    /\ \E b \in BusBytes : miso' = [i \in 1 .. 6 |-> b]
    /\ tx' = tx \o Packet(cmd, arg, crc)
    /\ sent' = [sent EXCEPT ![cmd] = @ + 1]
    /\ pc' = "send_poll"
    /\ UNCHANGED <<retpc, cmd, arg, crc, polls, ret, mainVars>>

\* lines 52-56: one iteration of the polling loop, and the return
SendCmdPoll ==
    /\ pc = "send_poll"
    /\ \E r \in BusBytes :
        /\ miso' = <<r>>
        /\ tx' = Append(tx, IdleByte)
        /\ polls' = polls + 1
        /\ IF IsResponse(r)
           THEN ret' = <<r>> /\ pc' = retpc
           ELSE IF PollsLeft(polls + 1)
                THEN ret' = ret /\ pc' = "send_poll"
                ELSE ret' = <<NoResponse>> /\ pc' = retpc
    /\ UNCHANGED <<retpc, cmd, arg, crc, sent, mainVars>>


\* a call of send_cmd(c, a, k) that returns to position rp
CallSendCmd(c, a, k, rp) ==
    /\ cmd' = c
    /\ arg' = a
    /\ crc' = k
    /\ retpc' = rp
    /\ pc' = "send_prime"

\* the caller takes send_cmd's value; send_cmd's frame is gone
TakeRet ==
    /\ ret' = <<>>
    /\ polls' = 0
    /\ tx' = <<>>

(***************************************************************************)
(* open_spi()                                                              *)
(***************************************************************************)
\* the ten idle bytes sent in one transfer
OpenSpiOneTransfer ==
    /\ pc = "open_spi"
    /\ \E b \in BusBytes : miso' = <<b>>
    /\ idle' = <<[i \in 1 .. IdleCount |-> IdleByte]>>
    /\ pc' = "main_template"
    /\ UNCHANGED <<sendVars, result, attempt, resp, initOk, tokenPolls, reads,
                   data, dataRet, diag, dump, reports>>

\* lines 38-39: spi.xfer2([0xFF]), one idle byte per transfer
OpenSpi ==
    /\ pc = "open_spi"
    /\ \E b \in BusBytes : miso' = <<b>>
    /\ idle' = Append(idle, <<IdleByte>>)
    /\ pc' = IF Len(idle) + 1 >= IdleCount THEN "main_template" ELSE "open_spi"
    /\ UNCHANGED <<sendVars, result, attempt, resp, initOk, tokenPolls, reads,
                   data, dataRet, diag, dump, reports>>

(***************************************************************************)
(* get_sys_version(): the outcome of `uname -a` is the environment's: the  *)
(* call fails, or prints the whitespace-separated parts of one line.       *)
(***************************************************************************)
UnameOutcomes ==
    { [ok |-> FALSE, parts |-> <<>>, machine |-> "aarch64"],
      [ok |-> TRUE, parts |-> <<"Linux">>, machine |-> "aarch64"],
      [ok |-> TRUE, parts |-> <<"Linux", "raspberrypi", "6.1.21-v8+", "#1642">>,
       machine |-> "aarch64"] }

GetSysVersion(u) ==
    IF u.ok /\ Len(u.parts) >= 3
    THEN <<"v", u.parts[3], " ", u.machine>>
    ELSE <<"vUnknown">>

(***************************************************************************)
(* The report.  Texts the program builds from bytes are sequences of code  *)
(* points; date is the clock reading in seconds since the run began.       *)
(***************************************************************************)
DefaultSignature == <<48, 120, 48, 48, 32, 48, 120, 48, 48>>   \* "0x00 0x00"
DefaultRevision  == <<48, 120, 48, 48>>                        \* "0x00"

\* the template with the health field preset to "unknown"
FailureTemplateUnknownHealth(version, now) ==
    [ version                 |-> version,
      date                    |-> now,
      device                  |-> "/dev/spidev0.0",
      method                  |-> "sandisk",
      signature               |-> DefaultSignature,
      SanDisk                 |-> FALSE,
      manufactureYYMMDD       |-> <<>>,
      healthStatusPercentUsed |-> 255,
      featureRevision         |-> DefaultRevision,
      generationIdentifier    |-> 0,
      productString           |-> <<>>,
      success                 |-> FALSE ]

\* lines 123-136
FailureTemplate(version, now) ==
    [ version                 |-> version,
      date                    |-> now,
      device                  |-> "/dev/spidev0.0",
      method                  |-> "sandisk",
      signature               |-> DefaultSignature,
      SanDisk                 |-> FALSE,
      manufactureYYMMDD       |-> <<>>,
      healthStatusPercentUsed |-> 0,
      featureRevision         |-> DefaultRevision,
      generationIdentifier    |-> 0,
      productString           |-> <<>>,
      success                 |-> FALSE ]

(***************************************************************************)
(* init_card()                                                             *)
(***************************************************************************)
\* any response byte taken for success
Cmd0AnyResponse(v) == v # NoResponse

\* line 70: send_cmd(0, ...) != 0x01 is false
Cmd0Accepted(v) == v = 1

\* any response byte taken for success
Cmd8AnyResponse(v) == v # NoResponse

\* line 72: send_cmd(8, ...) != 0x01 is false
Cmd8Accepted(v) == v = 1

\* one iteration too many
AttemptsLeftLong(n) == n <= AcmdLimit

\* line 75: range(100) has an iteration left after n of them
AttemptsLeft(n) == n < AcmdLimit

\* any response without the error bits taken for "ready"
AcmdReadyOrIdle(v) == v = 0 \/ v = 1

\* line 77: send_cmd(41, ...) == 0x00
AcmdReady(v) == v = 0

InitCardReturn(b) ==
    /\ initOk' = <<b>>
    /\ pc' = "main_init_chk"

\* main, lines 123-138: the failure template, then the call of init_card,
\* whose line 70 calls send_cmd(0, 0, 0x95)
MainTemplate ==
    /\ pc = "main_template"
    /\ \E u \in UnameOutcomes : result' = <<FailureTemplate(GetSysVersion(u), 0)>>
    /\ CallSendCmd(0, W32(0, 0), 149, "init_cmd0_chk")
    /\ UNCHANGED <<polls, tx, ret, sent, miso, idle, attempt, resp, initOk,
                   tokenPolls, reads, data, dataRet, diag, dump, reports>>

\* lines 70-72: CMD0's result; on 0x01 the call of send_cmd(8, 0x1AA, 0x87)
InitCmd0Chk ==
    /\ pc = "init_cmd0_chk"
    /\ resp' = [resp EXCEPT ![0] = ret]
    /\ TakeRet
    /\ IF ~Cmd0Accepted(ret[1])
       THEN InitCardReturn(FALSE) /\ UNCHANGED <<cmd, arg, crc, retpc>>
       ELSE CallSendCmd(8, W32(0, 426), 135, "init_cmd8_chk")
            /\ UNCHANGED initOk
    /\ UNCHANGED <<attempt, sent, miso, idle, result, tokenPolls, reads,
                   data, dataRet, diag, dump, reports>>

\* lines 72-73: CMD8's result
InitCmd8Chk ==
    /\ pc = "init_cmd8_chk"
    /\ resp' = [resp EXCEPT ![8] = ret]
    /\ TakeRet
    /\ IF ~Cmd8Accepted(ret[1])
       THEN InitCardReturn(FALSE)
       ELSE pc' = "init_echo" /\ UNCHANGED initOk
    /\ UNCHANGED <<attempt, cmd, arg, crc, retpc, sent, miso, idle, result,
                   tokenPolls, reads, data, dataRet, diag, dump, reports>>

\* the 4 trailing bytes of CMD8's response left on the bus
InitEchoSkipped ==
    /\ pc = "init_echo"
    /\ pc' = "init_loop"
    /\ UNCHANGED <<sendVars, miso, idle, result, attempt, resp, initOk,
                   tokenPolls, reads, data, dataRet, diag, dump, reports>>


\* line 74: spi.readbytes(4), the value dropped
InitEcho ==
    /\ pc = "init_echo"
    /\ \E e \in [1 .. EchoLen -> BusBytes] : miso' = e
    /\ reads' = Append(reads, EchoLen)
    /\ pc' = "init_loop"
    /\ UNCHANGED <<sendVars, idle, result, attempt, resp, initOk, tokenPolls,
                   data, dataRet, diag, dump, reports>>

\* lines 75-76 and 80: the loop head; the call of send_cmd(55, 0, 0x65)
InitLoop ==
    /\ pc = "init_loop"
    /\ IF AttemptsLeft(attempt)
       THEN /\ attempt' = attempt + 1
            /\ CallSendCmd(55, W32(0, 0), 101, "init_cmd55_ret")
            /\ UNCHANGED initOk
       ELSE InitCardReturn(FALSE) /\ UNCHANGED <<attempt, cmd, arg, crc, retpc>>
    /\ UNCHANGED <<polls, tx, ret, sent, miso, idle, result, resp, tokenPolls,
                   reads, data, dataRet, diag, dump, reports>>

\* CMD55's result checked: ACMD41 is sent only when CMD55 was answered
InitCmd55RetChecked ==
    /\ pc = "init_cmd55_ret"
    /\ TakeRet
    /\ IF ret[1] = NoResponse
       THEN /\ InitCardReturn(FALSE)
            /\ UNCHANGED <<cmd, arg, crc, retpc>>
       ELSE /\ CallSendCmd(41, W32(16384, 0), 119, "init_cmd41_chk")
            /\ UNCHANGED initOk
    /\ UNCHANGED <<sent, miso, idle, result, attempt, resp, tokenPolls, reads,
                   data, dataRet, diag, dump, reports>>

\* lines 76-77: CMD55's result is dropped; the call of
\* send_cmd(41, 0x40000000, 0x77)
InitCmd55Ret ==
    /\ pc = "init_cmd55_ret"
    /\ TakeRet
    /\ CallSendCmd(41, W32(16384, 0), 119, "init_cmd41_chk")
    /\ UNCHANGED <<sent, miso, mainVars>>

\* lines 77-79: ACMD41's result; the sleep of line 79 changes no state
InitCmd41Chk ==
    /\ pc = "init_cmd41_chk"
    /\ resp' = [resp EXCEPT ![41] = ret]
    /\ TakeRet
    /\ IF AcmdReady(ret[1])
       THEN InitCardReturn(TRUE)
       ELSE pc' = "init_loop" /\ UNCHANGED initOk
    /\ UNCHANGED <<attempt, cmd, arg, crc, retpc, sent, miso, idle, result,
                   tokenPolls, reads, data, dataRet, diag, dump, reports>>

(***************************************************************************)
(* read_data_block()                                                       *)
(***************************************************************************)
\* data[2:]
DropFirst2(s) == IF Len(s) <= 2 THEN <<>> ELSE SubSeq(s, 3, Len(s))

\* data[:-2]
DropLast2(s) == IF Len(s) <= 2 THEN <<>> ELSE SubSeq(s, 1, Len(s) - 2)

\* the blocks the environment may return to readbytes(512 + 2): byte i of
\* pattern n is (17 * n + (2 * n + 1) * i) mod 256, the CRC bytes included
PatternBlock(n) ==
    [i \in 1 .. (BlockLen + CrcLen) |-> (17 * n + (2 * n + 1) * (i - 1)) % 256]

\* any byte but the idle byte taken for the token
IsNotIdle(t) == t # IdleByte

\* line 61: token == 0xFE
IsStartToken(t) == t = StartToken

\* the token awaited without a limit
TokenPollsForever(n) == TRUE

\* line 59: range(1000) has an iteration left after n of them
TokenPollsLeft(n) == n < TokenLimit

\* lines 59-65: one iteration of the token loop; the sleep changes no state
ReadPoll ==
    /\ pc = "read_poll"
    /\ \E token \in BusBytes :
        /\ miso' = <<token>>
        /\ tokenPolls' = tokenPolls + 1
        /\ IF IsStartToken(token)
           THEN pc' = "read_payload" /\ UNCHANGED <<data, dataRet>>
           ELSE IF TokenPollsLeft(tokenPolls + 1)
                THEN pc' = "read_poll" /\ UNCHANGED <<data, dataRet>>
                ELSE data' = <<>> /\ dataRet' = TRUE /\ pc' = "main_data_chk"
    /\ UNCHANGED <<sendVars, idle, result, attempt, resp, initOk, reads, diag,
                   dump, reports>>

(***************************************************************************)
(* Text helpers of the parser: Python's slices, bytes.hex().upper(), the   *)
(* format specs 02X and 03d, bytes.decode(errors='ignore') and str.strip().*)
(***************************************************************************)
Min(a, b) == IF a <= b THEN a ELSE b

\* s[a:b] for 0 <= a <= b
Slice(s, a, b) == SubSeq(s, a + 1, Min(b, Len(s)))

\* code point of the hexadecimal digit d, lower case, as bytes.hex() gives it
HexDigitLower(d) == IF d < 10 THEN 48 + d ELSE 97 + (d - 10)

\* str.upper() on one code point of a hex string
UpperChar(c) == IF c >= 97 /\ c <= 122 THEN c - 32 ELSE c

RECURSIVE Hex(_)
Hex(bs) ==
    IF bs = <<>> THEN <<>>
    ELSE <<HexDigitLower(Head(bs) \div 16), HexDigitLower(Head(bs) % 16)>> \o Hex(Tail(bs))

Upper(s) == [i \in 1 .. Len(s) |-> UpperChar(s[i])]

\* f"{b:02X}"
Fmt02X(b) == Upper(Hex(<<b>>))

\* f"{i:03d}" for 0 <= i < 1000
Fmt03d(i) == <<48 + (i \div 100), 48 + ((i \div 10) % 10), 48 + (i % 10)>>

IsContinuation(b) == b >= 128 /\ b <= 191

\* UTF-8 decoding from position i, undecodable bytes skipped
RECURSIVE Utf8From(_, _)
Utf8From(s, i) ==
    IF i > Len(s) THEN <<>>
    ELSE LET b == s[i]
             n == Len(s) - i + 1
             c2 == s[i + 1]
             c3 == s[i + 2]
             c4 == s[i + 3]
         IN
         IF b < 128 THEN <<b>> \o Utf8From(s, i + 1)
         ELSE IF b < 194 THEN Utf8From(s, i + 1)
         ELSE IF b < 224 THEN
             IF n < 2 THEN <<>>
             ELSE IF ~IsContinuation(c2) THEN Utf8From(s, i + 1)
             ELSE <<(b - 192) * 64 + (c2 - 128)>> \o Utf8From(s, i + 2)
         ELSE IF b < 240 THEN
             IF n < 2 THEN <<>>
             ELSE IF \/ ~IsContinuation(c2)
                     \/ (b = 224 /\ c2 < 160)
                     \/ (b = 237 /\ c2 >= 160) THEN Utf8From(s, i + 1)
             ELSE IF n < 3 THEN <<>>
             ELSE IF ~IsContinuation(c3) THEN Utf8From(s, i + 2)
             ELSE <<(b - 224) * 4096 + (c2 - 128) * 64 + (c3 - 128)>>
                  \o Utf8From(s, i + 3)
         ELSE IF b < 245 THEN
             IF n < 2 THEN <<>>
             ELSE IF \/ ~IsContinuation(c2)
                     \/ (b = 240 /\ c2 < 144)
                     \/ (b = 244 /\ c2 >= 144) THEN Utf8From(s, i + 1)
             ELSE IF n < 3 THEN <<>>
             ELSE IF ~IsContinuation(c3) THEN Utf8From(s, i + 2)
             ELSE IF n < 4 THEN <<>>
             ELSE IF ~IsContinuation(c4) THEN Utf8From(s, i + 3)
             ELSE <<(b - 240) * 262144 + (c2 - 128) * 4096 + (c3 - 128) * 64
                     + (c4 - 128)>> \o Utf8From(s, i + 4)
         ELSE Utf8From(s, i + 1)

\* each byte taken for the character of its number, as latin-1 does
DecodeLatin1(bs) == bs

\* bytes.decode(errors='ignore')
Decode(bs) == Utf8From(bs, 1)

\* the code points str.strip() removes
IsSpace(c) ==
    \/ (c >= 9 /\ c <= 13)
    \/ (c >= 28 /\ c <= 32)
    \/ c = 133
    \/ c = 160
    \/ c = 5760
    \/ (c >= 8192 /\ c <= 8202)
    \/ c \in {8232, 8233, 8239, 8287, 12288}

RECURSIVE LStrip(_)
LStrip(s) == IF s # <<>> /\ IsSpace(Head(s)) THEN LStrip(Tail(s)) ELSE s

RECURSIVE RStrip(_)
RStrip(s) ==
    IF s # <<>> /\ IsSpace(s[Len(s)]) THEN RStrip(SubSeq(s, 1, Len(s) - 1)) ELSE s

\* str.rstrip()
StripTrailing(s) == RStrip(s)

\* str.strip()
Strip(s) == RStrip(LStrip(s))

(***************************************************************************)
(* parse_cmd56_data(data), lines 82-103                                    *)
(***************************************************************************)
\* the health byte taken at the table's byte number 9 as an index
ParseCmd56DataOneBased(d, version, now) ==
    LET sd_identifier         == Upper(Hex(Slice(d, 0, 2)))
        manufacture_date      == Decode(Slice(d, 2, 8))
        percent_used          == d[10]
        feature_revision      == Upper(Hex(Slice(d, 12, 14)))
        generation_identifier == d[15]
        product_string        == Strip(Decode(Slice(d, 49, 81)))
    IN
    [ version                 |-> version,
      date                    |-> now,
      device                  |-> "/dev/spidev0.0",
      method                  |-> "sandisk",
      signature               |-> <<48, 120>> \o Fmt02X(d[1]) \o <<32, 48, 120>>
                                  \o Fmt02X(d[2]),
      SanDisk                 |-> sd_identifier = <<52, 52, 53, 51>>,
      manufactureYYMMDD       |-> manufacture_date,
      healthStatusPercentUsed |-> percent_used,
      featureRevision         |-> <<48, 120>> \o feature_revision,
      generationIdentifier    |-> generation_identifier,
      productString           |-> product_string,
      success                 |-> TRUE ]

ParseCmd56Data(d, version, now) ==
    LET sd_identifier         == Upper(Hex(Slice(d, 0, 2)))
        manufacture_date      == Decode(Slice(d, 2, 8))
        percent_used          == d[9]
        feature_revision      == Upper(Hex(Slice(d, 12, 14)))
        generation_identifier == d[15]
        product_string        == Strip(Decode(Slice(d, 49, 81)))
    IN
    [ version                 |-> version,
      date                    |-> now,
      device                  |-> "/dev/spidev0.0",
      method                  |-> "sandisk",
      signature               |-> <<48, 120>> \o Fmt02X(d[1]) \o <<32, 48, 120>>
                                  \o Fmt02X(d[2]),
      SanDisk                 |-> sd_identifier = <<52, 52, 53, 51>>,
      manufactureYYMMDD       |-> manufacture_date,
      healthStatusPercentUsed |-> percent_used,
      featureRevision         |-> <<48, 120>> \o feature_revision,
      generationIdentifier    |-> generation_identifier,
      productString           |-> product_string,
      success                 |-> TRUE ]

(***************************************************************************)
(* dump_data_block(data), lines 115-119                                    *)
(***************************************************************************)
RECURSIVE JoinHex(_)
JoinHex(chunk) ==
    IF chunk = <<>> THEN <<>>
    ELSE IF Len(chunk) = 1 THEN Fmt02X(chunk[1])
    ELSE Fmt02X(chunk[1]) \o <<32>> \o JoinHex(Tail(chunk))

DumpLine(d, i) == Fmt03d(i) \o <<58, 32, 32>> \o JoinHex(Slice(d, i, i + 16))

DumpDataBlock(d) ==
    [k \in 1 .. ((Len(d) + 15) \div 16) |-> DumpLine(d, 16 * (k - 1))]

(***************************************************************************)
(* The blocks the environment may return to readbytes(512 + 2): patterns   *)
(* 0 .. MaxPattern, and register images built field by field.              *)
(***************************************************************************)
MaxPattern == 2
MaxElapsed == 2     \* seconds the clock may have advanced when the parser reads it

PadSpaces(s, n) == [i \in 1 .. n |-> IF i <= Len(s) THEN s[i] ELSE 32]

FieldBlock(id, date, health, rev, gen, prod, fill, crcb) ==
    [i \in 1 .. (BlockLen + CrcLen) |->
        LET o == i - 1 IN
        IF o < 2 THEN id[o + 1]
        ELSE IF o < 8 THEN date[o - 1]
        ELSE IF o = 8 THEN health
        ELSE IF o = 12 \/ o = 13 THEN rev[o - 11]
        ELSE IF o = 14 THEN gen
        ELSE IF o >= 49 /\ o <= 80 THEN PadSpaces(prod, 32)[o - 48]
        ELSE IF o >= BlockLen THEN crcb
        ELSE fill]

SanDiskText == <<83, 97, 110, 68, 105, 115, 107>>      \* "SanDisk"
Date240615  == <<50, 52, 48, 54, 49, 53>>              \* "240615"

FieldBlocks ==
    { FieldBlock(<<68, 83>>, Date240615, 42, <<0, 1>>, 3, SanDiskText, 0, 0),
      FieldBlock(<<68, 83>>, Date240615, 42, <<0, 1>>, 3, SanDiskText, 0, 255),
      FieldBlock(<<83, 68>>, <<50, 52, 255, 54, 49, 53>>, 255, <<171, 205>>, 0,
                 <<32, 32, 83, 97, 110, 32, 68, 105, 115, 107, 9>>, 255, 7),
      FieldBlock(<<68, 83>>, <<195, 169, 48, 54, 49, 226>>, 100, <<0, 0>>, 255,
                 <<>>, 32, 0) }

BlockSamples == { PatternBlock(n) : n \in 0 .. MaxPattern } \cup FieldBlocks

\* lines 66-67: the payload and the CRC bytes in one read; data[:-2] returned
ReadPayload ==
    /\ pc = "read_payload"
    /\ \E blk \in BlockSamples :
        /\ miso' = blk
        /\ data' = <<DropLast2(blk)>>
    /\ reads' = Append(reads, BlockLen + CrcLen)
    /\ dataRet' = TRUE
    /\ pc' = "main_data_chk"
    /\ UNCHANGED <<sendVars, idle, result, attempt, resp, initOk, tokenPolls,
                   diag, dump, reports>>

(***************************************************************************)
(* main()                                                                  *)
(***************************************************************************)
\* print the diagnostic and the failure template, return
FailWith(line) ==
    /\ diag' = Append(diag, line)
    /\ reports' = Append(reports, result[1])
    /\ pc' = "done"

\* any response byte taken for acceptance
Cmd56Responded(v) == v # NoResponse

\* -1 taken for 0x00
Cmd56NotPositive(v) == v <= 0

\* line 144: r != 0x00 is false
Cmd56Accepted(v) == v = 0

\* lines 138-143: init_card's result (init_card's frame is gone); on success
\* the call of send_cmd(56, 1, 0x01), with which the health-register read begins
MainInitChk ==
    /\ pc = "main_init_chk"
    /\ IF ~initOk[1]
       THEN FailWith("[-] Card initialization failed")
            /\ UNCHANGED <<cmd, arg, crc, retpc, sent>>
       ELSE /\ CallSendCmd(56, W32(0, 1), 1, "main_cmd56_chk")
            /\ sent' = [c \in CmdIndices |-> 0]
            /\ UNCHANGED <<diag, reports>>
    /\ attempt' = 0
    /\ UNCHANGED <<polls, tx, ret, miso, idle, result, resp, initOk,
                   tokenPolls, reads, data, dataRet, dump>>

\* lines 143-149: CMD56's result; on 0x00 the call of read_data_block
MainCmd56Chk ==
    /\ pc = "main_cmd56_chk"
    /\ resp' = [resp EXCEPT ![56] = ret]
    /\ TakeRet
    /\ IF ~Cmd56Accepted(ret[1])
       THEN FailWith("[-] CMD56 not accepted or unsupported")
       ELSE pc' = "read_poll" /\ UNCHANGED <<diag, reports>>
    /\ UNCHANGED <<cmd, arg, crc, retpc, sent, miso, idle, result,
                   attempt, initOk, tokenPolls, reads, data, dataRet, dump>>

\* `not data`: None and the empty list are false
Falsy(d) == d = <<>> \/ d[1] = <<>>

\* lines 149-153: read_data_block's result; read_data_block's frame is gone
MainDataChk ==
    /\ pc = "main_data_chk"
    /\ IF Falsy(data)
       THEN FailWith("[-] No data block received")
       ELSE pc' = "main_parse" /\ UNCHANGED <<diag, reports>>
    /\ tokenPolls' = 0
    /\ UNCHANGED <<sendVars, miso, idle, result, attempt, resp, initOk,
                   reads, data, dataRet, dump>>

\* lines 155-158: the dump, the parse (which asks the system version and the
\* clock again) and the report
MainParse ==
    /\ pc = "main_parse"
    /\ dump' = DumpDataBlock(data[1])
    /\ \E u \in UnameOutcomes, el \in 0 .. MaxElapsed :
        reports' = Append(reports, ParseCmd56Data(data[1], GetSysVersion(u), el))
    /\ pc' = "done"
    /\ UNCHANGED <<sendVars, miso, idle, result, attempt, resp, initOk,
                   tokenPolls, reads, data, dataRet, diag>>

(***************************************************************************)
(* Specifications: a run of main(), and send_cmd called on its own with    *)
(* any index, argument and crc.                                            *)
(***************************************************************************)
InitCommon ==
    /\ polls = 0
    /\ tx = <<>>
    /\ miso = <<>>
    /\ ret = <<>>
    /\ sent = [c \in CmdIndices |-> 0]
    /\ idle = <<>>
    /\ result = <<>>
    /\ attempt = 0
    /\ resp = [c \in {0, 8, 41, 56} |-> <<>>]
    /\ initOk = <<>>
    /\ tokenPolls = 0
    /\ reads = <<>>
    /\ data = <<>>
    /\ dataRet = FALSE
    /\ diag = <<>>
    /\ dump = <<>>
    /\ reports = <<>>

Init ==
    /\ pc = "open_spi"
    /\ retpc = "done"
    /\ cmd = 0
    /\ arg = W32(0, 0)
    /\ crc = 0
    /\ InitCommon

Next ==
    \/ OpenSpi
    \/ MainTemplate
    \/ SendCmdPrime
    \/ SendCmdPacket
    \/ SendCmdPoll
    \/ InitCmd0Chk
    \/ InitCmd8Chk
    \/ InitEcho
    \/ InitLoop
    \/ InitCmd55Ret
    \/ InitCmd41Chk
    \/ MainInitChk
    \/ MainCmd56Chk
    \/ ReadPoll
    \/ ReadPayload
    \/ MainDataChk
    \/ MainParse

Spec == Init /\ [][Next]_vars

InitSendCmd ==
    /\ pc = "send_prime"
    /\ retpc = "caller"
    /\ cmd \in CmdIndices
    /\ arg \in ArgSamples
    /\ crc \in CrcSamples
    /\ InitCommon

NextSendCmd == SendCmdPrime \/ SendCmdPacket \/ SendCmdPoll

SpecSendCmd == InitSendCmd /\ [][NextSendCmd]_vars

(***************************************************************************)
(* parse_cmd56_data called on its own, MaxParses times at most on the same *)
(* buffer: a block the bus may have returned, or a register image with any *)
(* of the sampled identifiers, dates, health and generation bytes,         *)
(* revisions and product strings.                                          *)
(***************************************************************************)
MaxParses == 2

IdSamples == { <<68, 83>>, <<83, 68>> }

DateSamples ==
    { Date240615,
      <<50, 52, 255, 54, 49, 53>>,
      <<195, 169, 48, 54, 49, 226>>,
      <<32, 50, 52, 0, 127, 128>> }

HealthGenSamples == { <<42, 3>>, <<0, 255>>, <<255, 128>> }

RevSamples == { <<0, 1>>, <<171, 205>> }

ProductSamples ==
    { SanDiskText,
      <<32, 32, 83, 97, 110, 32, 68, 105, 115, 107, 9>>,
      <<>>,
      <<83, 97, 110, 255, 68, 105, 115, 107>>,
      <<194, 160, 83, 68, 11>>,
      <<9, 83, 68, 240, 159, 146, 190, 32, 33>> }

ParseBuffers ==
    { DropLast2(b) : b \in BlockSamples } \cup
    { DropLast2(FieldBlock(id, date, hg[1], rev, hg[2], prod, 0, 0)) :
        id \in IdSamples, date \in DateSamples, hg \in HealthGenSamples,
        rev \in RevSamples, prod \in ProductSamples }

InitParse ==
    /\ pc = "parse_call"
    /\ retpc = "caller"
    /\ cmd = 0
    /\ arg = W32(0, 0)
    /\ crc = 0
    /\ polls = 0
    /\ tx = <<>>
    /\ miso = <<>>
    /\ ret = <<>>
    /\ sent = [c \in CmdIndices |-> 0]
    /\ idle = <<>>
    /\ result = <<>>
    /\ attempt = 0
    /\ resp = [c \in {0, 8, 41, 56} |-> <<>>]
    /\ initOk = <<>>
    /\ tokenPolls = 0
    /\ reads = <<>>
    /\ \E b \in ParseBuffers : data = <<b>>
    /\ dataRet = TRUE
    /\ diag = <<>>
    /\ dump = <<>>
    /\ reports = <<>>

\* a parser that consumes the first byte of the buffer it is given
ParseCallConsuming ==
    /\ pc = "parse_call"
    /\ Len(reports) < MaxParses
    /\ \E u \in UnameOutcomes, el \in 0 .. MaxElapsed :
        reports' = Append(reports, ParseCmd56Data(data[1], GetSysVersion(u), el))
    /\ data' = <<Tail(data[1]) \o <<0>>>>
    /\ UNCHANGED <<pc, sendVars, miso, idle, result, attempt, resp, initOk,
                   tokenPolls, reads, dataRet, diag, dump>>

\* lines 82-103: one call of parse_cmd56_data(data); it asks the system
\* version and the clock itself, and the caller keeps what it returns
ParseCall ==
    /\ pc = "parse_call"
    /\ Len(reports) < MaxParses
    /\ \E u \in UnameOutcomes, el \in 0 .. MaxElapsed :
        reports' = Append(reports, ParseCmd56Data(data[1], GetSysVersion(u), el))
    /\ UNCHANGED <<pc, sendVars, miso, idle, result, attempt, resp, initOk,
                   tokenPolls, reads, data, dataRet, diag, dump>>

NextParse == ParseCall

SpecParse == InitParse /\ [][NextParse]_vars

(***************************************************************************)
(* Properties of send_cmd, checked under SpecSendCmd.                      *)
(***************************************************************************)
SendCmdReturned == ret # <<>>

RECURSIVE AllIdle(_, _)
\* the bytes of s from position i on are all 0xFF
AllIdle(s, i) == i > Len(s) \/ (s[i] = 255 /\ AllIdle(s, i + 1))

\* C1: send_cmd returns the first polled byte whose bit 7 is 0, among at
\* most 10 polls: as long as it polls, the byte it last received had bit 7
\* set; when it returns a response, that is the byte just received, it is
\* below 0x80, and the poll that received it is the last byte transmitted.
C1_FirstResponseReturned ==
    /\ (pc = "send_poll" /\ polls > 0) => miso[1] >= 128
    /\ (SendCmdReturned /\ ret[1] # -1) =>
          /\ ret[1] = miso[1]
          /\ miso[1] < 128
          /\ polls >= 1 /\ polls <= 10
          /\ Len(tx) = 7 + polls
          /\ pc = retpc

C1_Witness ==
    /\ SendCmdReturned
    /\ ret = <<127>>
    /\ polls = 4

\* C2: when every polled byte has bit 7 set, send_cmd returns -1 after
\* exactly 10 poll bytes 0xFF: it never polls an eleventh time, and it
\* returns -1 only with ten polls made, the last byte received having bit 7 set.
C2_NoResponseAfterTenPolls ==
    /\ polls <= 10
    /\ pc = "send_poll" => polls < 10
    /\ (SendCmdReturned /\ miso[1] >= 128) => ret = <<-1>>
    /\ (SendCmdReturned /\ ret = <<-1>>) =>
          /\ polls = 10
          /\ miso[1] >= 128
          /\ Len(tx) = 17
          /\ AllIdle(tx, 8)
          /\ pc = retpc

C2_Witness ==
    /\ SendCmdReturned
    /\ ret = <<-1>>
    /\ polls = 10
    /\ miso = <<128>>

\* C3: the bytes send_cmd transmits are one priming byte 0xFF, then the six
\* packet bytes: 0x40 | index, the argument most-significant byte first, the
\* crc; then only poll bytes 0xFF.  One packet is transmitted per call.
C3_PacketLayout ==
    /\ pc = "send_packet" => tx = <<255>>
    /\ pc = "send_prime" => tx = <<>>
    /\ pc \notin {"send_prime", "send_packet"} =>
          /\ Len(tx) = 7 + polls
          /\ tx[1] = 255
          /\ tx[2] \div 64 = 1 /\ tx[2] % 64 = cmd
          /\ \A i \in 3 .. 6 : tx[i] \in 0 .. 255
          /\ tx[3] * 256 + tx[4] = arg.hi
          /\ tx[5] * 256 + tx[6] = arg.lo
          /\ tx[7] = crc
          /\ AllIdle(tx, 8)
          /\ sent[cmd] = 1

C3_Witness ==
    /\ pc = "send_poll"
    /\ polls = 0
    /\ cmd = 63
    /\ arg = W32(4660, 22136)
    /\ crc = 149
    /\ tx = <<255, 127, 18, 52, 86, 120, 149>>

(***************************************************************************)
(* Properties of init_card, checked under Spec.                            *)
(***************************************************************************)
\* C4: when CMD0's result is anything but 0x01 (-1 included), init_card has
\* returned False in the same step, and no CMD8, CMD55 or ACMD41 packet (nor
\* any other) is transmitted in the run.
C4_Cmd0RejectFailsAtOnce ==
    (resp[0] # <<>> /\ resp[0] # <<1>>) =>
        /\ initOk = <<FALSE>>
        /\ sent[0] = 1
        /\ \A c \in CmdIndices \ {0} : sent[c] = 0
        /\ pc \in {"main_init_chk", "done"}
        /\ reads = <<>>

C4_Witness ==
    /\ pc = "done"
    /\ resp[0] = <<-1>>
    /\ initOk = <<FALSE>>

\* C5 as claimed: in every run in which CMD8 was sent and answered, the 4
\* echo bytes have been read, whatever the response was.
C5_EchoReadWhateverResponse ==
    (pc = "done" /\ resp[8] # <<>>) => (reads # <<>> /\ reads[1] = 4)

\* C5 amended: the 4 echo bytes are read, and dropped, exactly when CMD8's
\* result is 0x01, as the transfer right after that result and whatever the
\* 4 bytes are; any other result (-1 included) makes init_card return False
\* without reading them.
C5_EchoReadOnlyAfterAccept ==
    /\ (resp[8] = <<1>> /\ pc # "init_echo") => (reads # <<>> /\ reads[1] = 4)
    /\ pc = "init_echo" => (resp[8] = <<1>> /\ reads = <<>> /\ initOk = <<>>)
    /\ (pc = "init_loop" /\ attempt = 0) =>
          (reads = <<4>> /\ Len(miso) = 4 /\ initOk = <<>>)
    /\ (resp[8] # <<>> /\ resp[8] # <<1>>) => (initOk = <<FALSE>> /\ reads = <<>>)
    /\ reads # <<>> => resp[8] = <<1>>

C5_Witness ==
    /\ pc = "init_loop"
    /\ attempt = 0
    /\ resp[8] = <<1>>
    /\ reads = <<4>>
    /\ miso = <<255, 0, 1, 254>>

\* C6: with CMD0 and CMD8 answered 0x01, init_card returns False only after
\* exactly 100 CMD55 and 100 ACMD41 packets, none of whose results was 0x00;
\* a result other than 0x00 never ends the loop before, and no 101st pair is
\* sent.
C6_AcmdLoopExhausts ==
    /\ sent[55] <= 100 /\ sent[41] <= 100 /\ attempt <= 100
    /\ (initOk = <<FALSE>> /\ resp[0] = <<1>> /\ resp[8] = <<1>>) =>
          /\ sent[55] = 100
          /\ sent[41] = 100
          /\ resp[41] # <<>> /\ resp[41] # <<0>>
    /\ (initOk = <<>> /\ pc = "init_loop" /\ attempt > 0) =>
          /\ resp[41] # <<0>>
          /\ sent[55] = attempt /\ sent[41] = attempt

C6_Witness ==
    /\ pc = "main_init_chk"
    /\ initOk = <<FALSE>>
    /\ sent[55] = 100
    /\ sent[41] = 100
    /\ resp[41] = <<-1>>

\* C7: init_card returns True exactly at the first ACMD41 attempt k, 1 <= k
\* <= 100, whose result is 0x00 (all results taken while the loop runs
\* differ from 0x00), with k CMD55 and k ACMD41 packets sent, CMD0 and CMD8
\* sent once each; afterwards no bring-up command is transmitted.
C7_SucceedsAtFirstReady ==
    /\ (initOk = <<>> /\ resp[41] # <<>>) => resp[41] # <<0>>
    /\ resp[41] = <<0>> => initOk = <<TRUE>>
    /\ initOk = <<TRUE>> =>
          /\ resp[0] = <<1>> /\ resp[8] = <<1>> /\ resp[41] = <<0>>
          /\ pc = "main_init_chk" =>
                /\ attempt >= 1 /\ attempt <= 100
                /\ sent[55] = attempt /\ sent[41] = attempt
                /\ sent[0] = 1 /\ sent[8] = 1
          /\ pc # "main_init_chk" =>
                /\ attempt = 0
                /\ sent[0] = 0 /\ sent[8] = 0 /\ sent[55] = 0 /\ sent[41] = 0
                /\ cmd = 56

C7_Witness ==
    /\ pc = "main_init_chk"
    /\ initOk = <<TRUE>>
    /\ attempt = 3
    /\ sent[41] = 3

(***************************************************************************)
(* Properties of read_data_block and of main's failure paths, under Spec.  *)
(***************************************************************************)
ReadReturnedNone == dataRet /\ data = <<>>
ReadReturnedBlock == dataRet /\ data # <<>>

\* C8: read_data_block returns None only after exactly 1000 poll bytes, none
\* of which was answered 0xFE, and without any readbytes of a payload; while
\* it polls, the byte it last received differs from 0xFE (0x00 and the other
\* bytes alike), and it leaves the loop for the payload only on 0xFE.
C8_NoTokenAfterThousandPolls ==
    /\ tokenPolls <= 1000
    /\ pc = "read_poll" => tokenPolls < 1000
    /\ (pc = "read_poll" /\ tokenPolls > 0) => miso[1] # 254
    /\ pc = "read_payload" => miso = <<254>>
    /\ ReadReturnedNone =>
          /\ reads = <<4>>
          /\ pc \in {"main_data_chk", "done"}
          /\ pc = "main_data_chk" =>
                (tokenPolls = 1000 /\ Len(miso) = 1 /\ miso[1] # 254)

C8_Witness ==
    /\ pc = "main_data_chk"
    /\ ReadReturnedNone
    /\ tokenPolls = 1000
    /\ miso = <<0>>

\* C9: when 0xFE answers poll k <= 1000, the next transfer is the read of
\* 514 bytes, and read_data_block returns the first 512 of them in order:
\* neither the token nor the two CRC bytes are in the result.
C9_BlockIsFirst512 ==
    /\ pc = "read_payload" =>
          (miso = <<254>> /\ tokenPolls >= 1 /\ tokenPolls <= 1000 /\ ~dataRet)
    /\ (ReadReturnedBlock /\ pc = "main_data_chk") =>
          /\ tokenPolls >= 1 /\ tokenPolls <= 1000
          /\ reads = <<4, 514>>
          /\ Len(miso) = 514
          /\ Len(data[1]) = 512
          /\ \A i \in 1 .. 512 : data[1][i] = miso[i]

C9_Witness ==
    /\ pc = "main_data_chk"
    /\ ReadReturnedBlock
    /\ tokenPolls = 1000
    /\ miso[1] = 68 /\ miso[2] = 83
    /\ miso[513] = 255 /\ miso[514] = 255
    /\ Len(data[1]) = 512

RunFailed ==
    \/ initOk = <<FALSE>>
    \/ (resp[56] # <<>> /\ resp[56] # <<0>>)
    \/ ReadReturnedNone

\* C10: when init_card returned False, CMD56's result is not 0x00 (-1
\* included) or read_data_block returned None, the run is at its report or
\* has ended, and the report step can be taken; when it has ended it has
\* printed one diagnostic, no dump, and exactly one report, with success
\* false and every decoded field at its default.
C10_FailureReportDefaults ==
    RunFailed =>
        /\ pc \in {"main_init_chk", "main_data_chk", "done"}
        /\ pc # "done" => ENABLED (MainInitChk \/ MainDataChk)
        /\ pc = "done" =>
              /\ Len(reports) = 1
              /\ reports[1].success = FALSE
              /\ reports[1].signature = <<48, 120, 48, 48, 32, 48, 120, 48, 48>>
              /\ reports[1].SanDisk = FALSE
              /\ reports[1].manufactureYYMMDD = <<>>
              /\ reports[1].healthStatusPercentUsed = 0
              /\ reports[1].generationIdentifier = 0
              /\ reports[1].productString = <<>>
              /\ Len(diag) = 1
              /\ dump = <<>>

C10_Witness ==
    /\ pc = "done"
    /\ resp[0] = <<5>>
    /\ Len(reports) = 1
    /\ reports[1].success = FALSE

(***************************************************************************)
(* Termination of a run of main(), checked under Spec.                     *)
(***************************************************************************)
InSendCmd == pc \in {"send_prime", "send_packet", "send_poll"}

\* the most steps a call of send_cmd can still take before it has returned
SendCmdSteps ==
    IF pc = "send_prime" THEN PollLimit + 2
    ELSE IF pc = "send_packet" THEN PollLimit + 1
    ELSE PollLimit - polls

\* the most steps left from the check of CMD56's result on
TailSteps == TokenLimit + 5

\* the most steps of one round of the ACMD41 loop
RoundSteps == 2 * (PollLimit + 2) + 3

\* the most steps left from the head of the ACMD41 loop with n rounds done
LoopSteps(n) == TailSteps + PollLimit + 4 + RoundSteps * (AcmdLimit - n)

\* the most steps left from the place a call of send_cmd returns to
ReturnSteps(p) ==
    CASE p = "main_cmd56_chk" -> TailSteps
      [] p = "init_cmd41_chk" -> LoopSteps(attempt) + 1
      [] p = "init_cmd55_ret" -> LoopSteps(attempt) + PollLimit + 4
      [] p = "init_cmd8_chk" -> LoopSteps(0) + 2
      [] p = "init_cmd0_chk" -> LoopSteps(0) + PollLimit + 5
      [] OTHER -> 0

\* the most steps a run can still take: no run is longer than its value in
\* the first state
StepsLeft ==
    CASE pc = "done" -> 0
      [] pc = "main_parse" -> 1
      [] pc = "main_data_chk" -> 2
      [] pc = "read_payload" -> 3
      [] pc = "read_poll" -> 4 + TokenLimit - tokenPolls
      [] pc = "main_init_chk" -> TailSteps + PollLimit + 3
      [] pc = "init_loop" -> LoopSteps(attempt)
      [] pc = "init_echo" -> LoopSteps(0) + 1
      [] pc = "main_template" -> LoopSteps(0) + 2 * PollLimit + 8
      [] pc = "open_spi" -> LoopSteps(0) + 2 * PollLimit + 8 + IdleCount - Len(idle)
      [] InSendCmd -> ReturnSteps(retpc) + SendCmdSteps
      [] OTHER -> ReturnSteps(pc)

\* a run that has not ended can take its next step; at line 156, where
\* parse_cmd56_data indexes the block up to byte 80, the block is whole
CanStep ==
    IF pc = "main_parse"
    THEN data # <<>> /\ Len(data[1]) = BlockLen
    ELSE ENABLED Next

\* C11: whatever the bus answers, a run of main() terminates: every step
\* lowers the number of steps the bounded loops still allow (at most 10
\* polls a command, 100 ACMD41 rounds, 1000 token polls), that number never
\* falls below zero, a run that has not ended can always take its next step,
\* and at its end exactly one report, success or failure, is written; it
\* never polls forever.
C11_RunTerminates ==
    /\ [](/\ StepsLeft >= 0
          /\ pc # "done" => CanStep
          /\ pc = "done" => Len(reports) = 1 /\ ~ENABLED Next)
    /\ [][StepsLeft' < StepsLeft]_vars

C11_Witness ==
    /\ pc = "done"
    /\ Len(reports) = 1
    /\ reports[1].success
    /\ reads = <<EchoLen, BlockLen + CrcLen>>

(***************************************************************************)
(* Order of the commands of a run of main(), checked under Spec.           *)
(***************************************************************************)
\* the command before the call about to be made was answered: its response
\* byte, with bit 7 clear, was received (and CMD8's trailing bytes read)
PrevAnswered ==
    CASE pc = "main_template" -> TRUE
      [] pc \in {"init_cmd0_chk", "init_cmd55_ret"} -> ret[1] # NoResponse
      [] pc = "init_loop" ->
            IF attempt = 0
            THEN resp[8][1] # NoResponse /\ reads = <<EchoLen>>
            ELSE resp[41][1] # NoResponse
      [] pc = "main_init_chk" -> resp[41][1] # NoResponse
      [] OTHER -> FALSE

\* the call of send_cmd before the call about to be made has returned, with
\* a response byte or with -1 after ten unanswered polls, its result has
\* been taken (and CMD8's trailing bytes read)
PrevReturned ==
    CASE pc = "main_template" -> \A c \in CmdIndices : sent[c] = 0
      [] pc \in {"init_cmd0_chk", "init_cmd55_ret"} ->
            /\ ret # <<>>
            /\ \/ ret[1] = miso[1] /\ miso[1] < HighBit
               \/ ret[1] = NoResponse /\ miso[1] >= HighBit /\ polls = PollLimit
      [] pc = "init_loop" ->
            /\ ret = <<>>
            /\ IF attempt = 0
               THEN resp[8] = <<1>> /\ reads = <<EchoLen>>
               ELSE resp[41] # <<>>
      [] pc = "main_init_chk" -> ret = <<>> /\ resp[41] = <<0>>
      [] OTHER -> FALSE

\* C12 as stated: no command is begun until the command before it was
\* answered by a response byte with bit 7 clear and the trailing bytes of
\* that response were read.
C12_NextOnlyAfterResponse == [][pc' = "send_prime" => PrevAnswered]_vars

\* C12, amended: commands are issued strictly one after another, each begun
\* only when the call of send_cmd before it has returned, with a response
\* byte (bit 7 clear) or, after ten unanswered polls, with -1, and the 4
\* trailing bytes of CMD8's response have been read; a call begins with
\* nothing left of the one before, and the packet follows its own priming
\* byte only.
C12_NextOnlyAfterReturn ==
    /\ [](/\ pc = "send_prime" => ret = <<>> /\ tx = <<>> /\ polls = 0
          /\ pc = "send_packet" => ret = <<>> /\ tx = <<IdleByte>>
          /\ (InSendCmd /\ cmd \in {55, 41, 56}) => reads = <<EchoLen>>
          /\ (InSendCmd /\ cmd \in {0, 8}) => reads = <<>>)
    /\ [][pc' = "send_prime" => PrevReturned]_vars

C12_Witness ==
    /\ pc = "send_poll"
    /\ polls = 0
    /\ cmd = 55
    /\ attempt = 2
    /\ resp[41] = <<NoResponse>>

(***************************************************************************)
(* The idle preamble of open_spi(), checked under Spec.                    *)
(***************************************************************************)
\* C13: open_spi transmits exactly ten idle bytes 0xFF, one per transfer,
\* before the first command packet: while it runs fewer than ten transfers
\* are made and no byte of send_cmd has been transmitted; every transfer it
\* makes is the single byte 0xFF; from its end on the transfers are those
\* ten, so the first command is called with exactly ten behind it.
C13_TenIdleBytesFirst ==
    /\ \A i \in 1 .. Len(idle) : idle[i] = <<255>>
    /\ pc = "open_spi" =>
          /\ Len(idle) < 10
          /\ tx = <<>>
          /\ \A c \in CmdIndices : sent[c] = 0
    /\ pc # "open_spi" => Len(idle) = 10
    /\ (InSendCmd \/ \E c \in CmdIndices : sent[c] > 0) => Len(idle) = 10

C13_Witness ==
    /\ pc = "send_poll"
    /\ polls = 0
    /\ sent[0] = 1
    /\ \A c \in CmdIndices \ {0} : sent[c] = 0
    /\ tx = <<255, 64, 0, 0, 0, 0, 149>>
    /\ Len(idle) = 10

(***************************************************************************)
(* Properties of parse_cmd56_data, checked under SpecParse.                *)
(***************************************************************************)
\* the buffer parsed, and its byte at offset o (offsets count from 0)
Buffer == data[1]
ByteAt(o) == Buffer[o + 1]
BytesAt(a, b) == [i \in 1 .. (b - a + 1) |-> ByteAt(a + i - 1)]

HexDigits == <<48, 49, 50, 51, 52, 53, 54, 55, 56, 57, 65, 66, 67, 68, 69, 70>>
HexOfByte(b) == <<HexDigits[(b \div 16) + 1], HexDigits[(b % 16) + 1]>>

IsAscii(bs) == \A i \in 1 .. Len(bs) : bs[i] < 128

SyntheticBuffer ==
    DropLast2(FieldBlock(<<68, 83>>, Date240615, 42, <<0, 1>>, 3, SanDiskText,
                         0, 0))

NeverValid(b) == b \in {192, 193} \cup (245 .. 255)

IsAsciiChar(c) == c < 128
IsAsciiInk(c) == c < 128 /\ ~IsSpace(c)

\* the manufacture-date and product-string fields have a UTF-8 replacement
\* character where they hold the byte 0xFF
HasReplacement(t) == \E k \in 1 .. Len(t) : t[k] = 65533
HasFF(bs) == \E k \in 1 .. Len(bs) : bs[k] = 255

SansDate(r) == [r EXCEPT !.date = 0]
SansDateVersion(r) == [r EXCEPT !.date = 0, !.version = <<>>]

C17_StageGating ==
    /\ [](/\ ((InSendCmd /\ cmd = 56) \/ sent[56] > 0) =>
                /\ initOk = <<TRUE>>
                /\ cmd = 56 /\ arg = W32(0, 1) /\ crc = 1
                /\ sent[56] <= 1
          /\ (sent[56] > 0 /\ InSendCmd) =>
                SubSeq(tx, 1, 7) = <<255, 120, 0, 0, 0, 1, 1>>
          /\ (pc \in {"read_poll", "read_payload"} \/ tokenPolls > 0 \/ dataRet) =>
                resp[56] = <<0>>
          /\ (pc = "main_parse" \/ dump # <<>>
                \/ (reports # <<>> /\ reports[1].success)) =>
                /\ dataRet
                /\ data # <<>>
                /\ Len(data[1]) = 512
          /\ RunFailed => pc \in {"main_init_chk", "main_data_chk", "done"}
          /\ initOk = <<FALSE>> =>
                /\ sent[56] = 0 /\ resp[56] = <<>>
                /\ tokenPolls = 0 /\ ~dataRet
                /\ reads \in {<<>>, <<4>>}
          /\ (resp[56] # <<>> /\ resp[56] # <<0>>) =>
                tokenPolls = 0 /\ ~dataRet /\ reads = <<4>>
          /\ (dataRet /\ data = <<>>) => reads = <<4>>)
    /\ [][RunFailed =>
            /\ miso' = miso /\ tx' = tx /\ reads' = reads /\ sent' = sent
            /\ RunFailed' /\ pc' = "done"]_vars

C17_Witness ==
    /\ pc = "done"
    /\ initOk = <<TRUE>>
    /\ resp[56] = <<5>>
    /\ sent[56] = 1
    /\ reads = <<4>>
    /\ ~dataRet
    /\ ~reports[1].success

(***************************************************************************)
(* CMD55 in the ACMD41 loop of init_card(), checked under Spec.            *)
(***************************************************************************)
\* C18: CMD55's response is ignored: whatever send_cmd(55) returned, a
\* response byte with or without error bits or -1, the next step calls
\* ACMD41 (index 41, argument 0x40000000, crc 0x77) and changes nothing
\* else of init_card; the packets of CMD55 and ACMD41 alternate, each
\* ACMD41 right after exactly one CMD55 of the same round; and init_card's
\* result is True exactly when CMD0 and CMD8 returned 0x01 and the last
\* ACMD41 returned 0x00, whatever CMD55 returned.
C18_Cmd55ResponseIgnored ==
    /\ [](/\ pc = "init_cmd55_ret" =>
                /\ cmd = 55 /\ sent[55] = attempt /\ sent[41] = attempt - 1
                /\ ret # <<>>
                /\ ret[1] = NoResponse \/ ret[1] \in 0 .. 127
          /\ (InSendCmd /\ cmd = 41) =>
                /\ arg = W32(16384, 0) /\ crc = 119
                /\ retpc = "init_cmd41_chk"
                /\ sent[55] = attempt
                /\ sent[41] = IF pc = "send_poll" THEN attempt ELSE attempt - 1
          /\ (pc = "send_poll" /\ cmd = 41) =>
                SubSeq(tx, 1, 7) = <<255, 105, 64, 0, 0, 0, 119>>
          /\ (InSendCmd /\ cmd = 55) =>
                /\ sent[41] = attempt - 1
                /\ sent[55] = IF pc = "send_poll" THEN attempt ELSE attempt - 1
          /\ sent[41] <= sent[55] /\ sent[55] <= sent[41] + 1
          /\ initOk # <<>> =>
                (initOk[1] <=>
                    resp[0] = <<1>> /\ resp[8] = <<1>> /\ resp[41] = <<0>>))
    /\ [][pc = "init_cmd55_ret" =>
            /\ pc' = "send_prime" /\ retpc' = "init_cmd41_chk"
            /\ cmd' = 41 /\ arg' = W32(16384, 0) /\ crc' = 119
            /\ UNCHANGED <<initOk, resp, attempt, sent, reads>>]_vars

C18_Witness ==
    /\ pc = "send_prime"
    /\ cmd = 41
    /\ miso = <<255>>
    /\ sent[55] = 2
    /\ sent[41] = 1
    /\ resp[41] = <<5>>

(***************************************************************************)
(* The product string of parse_cmd56_data, checked under SpecParse.        *)
(***************************************************************************)
RECURSIVE DropTrailingSpaces(_)
\* s without the spaces (0x20) at its end
DropTrailingSpaces(s) ==
    IF s # <<>> /\ s[Len(s)] = 32
    THEN DropTrailingSpaces(SubSeq(s, 1, Len(s) - 1))
    ELSE s

\* p is t without a run of white space at its start and one at its end,
\* and itself neither starts nor ends with white space
IsTrimOf(p, t) ==
    /\ \E a \in 1 .. Len(t) + 1 :
          /\ p = SubSeq(t, a, a + Len(p) - 1)
          /\ a + Len(p) - 1 <= Len(t)
          /\ \A k \in 1 .. Len(t) :
                (k < a \/ k > a + Len(p) - 1) => IsSpace(t[k])
    /\ p # <<>> => ~IsSpace(p[1]) /\ ~IsSpace(p[Len(p)])

\* C19 as stated: the product string is the text of bytes 49-80 with the
\* spaces at its end trimmed and nothing else removed (checked where the 32
\* bytes are ASCII, so that the text is the bytes): leading spaces and
\* interior characters are kept.
C19_OnlyTrailingSpacesTrimmed ==
    \A i \in 1 .. Len(reports) :
        IsAscii(BytesAt(49, 80)) =>
            reports[i].productString = DropTrailingSpaces(BytesAt(49, 80))

\* C19, amended: the product string is the text of bytes 49-80 (undecodable
\* bytes dropped) with the white space at both its ends trimmed, spaces,
\* tabs and the other white-space characters alike: it neither starts nor
\* ends with white space, what was cut off at either end is white space
\* only, and the interior characters are kept as they are; where the bytes
\* are ASCII the text trimmed is the 32 bytes themselves.
C19_BothEndsTrimmed ==
    \A i \in 1 .. Len(reports) :
        /\ IsTrimOf(reports[i].productString, Decode(BytesAt(49, 80)))
        /\ IsAscii(BytesAt(49, 80)) =>
              IsTrimOf(reports[i].productString, BytesAt(49, 80))

C19_Witness ==
    /\ Len(reports) = 1
    /\ BytesAt(49, 60) = <<32, 32, 83, 97, 110, 32, 68, 105, 115, 107, 9, 32>>
    /\ reports[1].productString = <<83, 97, 110, 32, 68, 105, 115, 107>>

(***************************************************************************)
(* The report of a run of main(), checked under Spec.                      *)
(***************************************************************************)
\* C20: every run emits exactly one report, none before its end and one at
\* its end, and the report's success is true exactly when CMD0 and CMD8
\* returned 0x01, an ACMD41 within the 100 rounds returned 0x00, CMD56
\* returned 0x00 and the token 0xFE was seen within the 1000 polls, so that
\* the block was read; a result of -1 is never taken for 0x00: no response
\* to ACMD41 or CMD56 gives no success.
C20_OneReportSuccessIffAllStages ==
    /\ pc # "done" => reports = <<>>
    /\ attempt <= 100 /\ tokenPolls <= 1000
    /\ resp[41] = <<-1>> => initOk # <<TRUE>>
    /\ pc = "done" =>
          /\ Len(reports) = 1
          /\ reports[1].success <=>
                /\ resp[0] = <<1>>
                /\ resp[8] = <<1>>
                /\ resp[41] = <<0>>
                /\ resp[56] = <<0>>
                /\ ReadReturnedBlock
                /\ reads = <<4, 514>>
          /\ (resp[41] = <<-1>> \/ resp[56] = <<-1>>) => ~reports[1].success

C20_Witness ==
    /\ pc = "done"
    /\ reports[1].success
    /\ resp = [c \in {0, 8, 41, 56} |-> IF c \in {0, 8} THEN <<1>> ELSE <<0>>]
    /\ diag = <<>>
    /\ dump # <<>>
====
